---- MODULE Spec2Model ----
(***************************************************************************)
(* Control plane of the agent-browser daemon: the command daemon           *)
(* (src/src/daemon.ts) and the stream server (src/unnamed/part_003).       *)
(*                                                                         *)
(* Text is modelled as a sequence of atoms <<kind, id, act>>.  A command   *)
(* line {id, action} is three atoms: its first half "h1", its second half  *)
(* "h2" and the newline; so a line can be cut inside itself by the         *)
(* transport.  The id of an atom is also the ordinal of its line in the    *)
(* client's stream, which lets a response be traced to the line it is for. *)
(***************************************************************************)
EXTENDS Integers, Sequences, FiniteSets, TLC

(* ------------------------------ bounds --------------------------------- *)
\* handler invocations of one connection that may be suspended at once
MaxInvocations == 2
\* marker deletions that may fail in one run
MaxIoFaults == 1
\* viewer sockets that connect to the stream server in one run
MaxViewers == 3
\* of these, the viewers followed through upgrade requests and inbound messages
MaxGuests == 2
\* the longest session name drawn from NameUnits
MaxNameLen == 3
\* the computations of the port made for one session name
MaxCalls == 2

(* ------------------------------ text ----------------------------------- *)
NL == <<"nl", 0, "">>
SP == <<"sp", 0, "">>
IsWs(a) == a[1] \in {"nl", "sp"}

\* a well-formed command line, id k and action a
Cmd(k, a) == << <<"h1", k, a>>, <<"h2", k, a>> >>
\* valid JSON that is no command (the id can be recovered)
BadId(k) == << <<"h1", k, "navigate">>, <<"hx", k, "">> >>
\* not JSON at all
Bad(k) == << <<"bad", k, "">> >>
\* an HTTP request line: method keyword (two atoms), whitespace, the rest
Http(k) == << <<"m1", k, "">>, <<"m2", k, "">>, SP, <<"bad", k, "">> >>
\* a block of 2 MiB without a newline
Junk(k) == << <<"junk", k, "">> >>

\* String.prototype.length
AtomLen(a) == IF a[1] = "junk" THEN 2 * 1024 * 1024 ELSE 1
RECURSIVE StrLen(_)
StrLen(s) == IF s = <<>> THEN 0 ELSE AtomLen(Head(s)) + StrLen(Tail(s))

\* String.prototype.trimStart / trim
RECURSIVE TrimStart(_)
TrimStart(s) == IF s # <<>> /\ IsWs(Head(s)) THEN TrimStart(Tail(s)) ELSE s
RECURSIVE TrimEnd(_)
TrimEnd(s) ==
    IF s # <<>> /\ IsWs(s[Len(s)]) THEN TrimEnd(SubSeq(s, 1, Len(s) - 1)) ELSE s
Trim(s) == TrimEnd(TrimStart(s))

\* buffer.includes('\n') / buffer.indexOf('\n') (1-based; 0 when absent)
HasNL(s) == \E i \in 1..Len(s) : s[i] = NL
IndexOfNL(s) ==
    IF HasNL(s) THEN CHOOSE i \in 1..Len(s) : s[i] = NL /\ \A j \in 1..(i - 1) : s[j] # NL
    ELSE 0

\* a bound twice as large
MAX_BUFFER_SIZE_DOUBLED == 1024 * 1024 * 8

MAX_BUFFER_SIZE == 1024 * 1024 * 4

\* a check that also demands a request target after the method: /^(GET|...)\s\S/
IsHttpRequestWithTarget(trimmed) ==
    /\ Len(trimmed) >= 4
    /\ trimmed[1][1] = "m1"
    /\ trimmed[2][1] = "m2"
    /\ IsWs(trimmed[3])
    /\ ~IsWs(trimmed[4])

\* /^(GET|POST|...)\s/i.test(trimmed)
IsHttpRequest(trimmed) ==
    /\ Len(trimmed) >= 3
    /\ trimmed[1][1] = "m1"
    /\ trimmed[2][1] = "m2"
    /\ IsWs(trimmed[3])

(* ------------------------------ protocol ------------------------------- *)
NoCmd == [id |-> 0, action |-> ""]
CmdId(k) == [tag |-> "cmd", n |-> k]
Sentinel(s) == [tag |-> s, n |-> 0]

\* parseCommand(line): success with the command, or failure with the id when
\* the line is JSON carrying one
ParseCommand(line) ==
    LET t == Trim(line) IN
    IF Len(t) = 2 /\ t[1][1] = "h1" /\ t[2][1] = "h2" /\ t[1][2] = t[2][2] /\ t[1][3] = t[2][3]
    THEN [success |-> TRUE, hasId |-> TRUE, command |-> [id |-> t[1][2], action |-> t[1][3]]]
    ELSE IF Len(t) = 2 /\ t[1][1] = "h1" /\ t[2][1] = "hx" /\ t[1][2] = t[2][2]
    THEN [success |-> FALSE, hasId |-> TRUE, command |-> [id |-> t[1][2], action |-> ""]]
    ELSE [success |-> FALSE, hasId |-> FALSE, command |-> NoCmd]

\* the ordinal of a (non-blank) line in the client's stream
LineOf(line) == TrimStart(line)[1][2]

\* errorResponse(id, message), and a response of executeCommand
Response(rid, isOk, k) == [id |-> rid, ok |-> isOk, src |-> k]
ErrorResponse(rid, k) == Response(rid, FALSE, k)

\* errorResponse(parseResult.id ?? 'unknown', parseResult.error)
ParseFailureResponse(pr, line) ==
    ErrorResponse(IF pr.hasId THEN CmdId(pr.command.id) ELSE Sentinel("unknown"), LineOf(line))

\* errorResponse('error', message) of the catch block
CatchResponse(cmd) == ErrorResponse(Sentinel("error"), cmd.id)

\* the outcomes of browser.launch() and of executeCommand()
LaunchOutcomes == {"ok", "throw"}
ExecuteOutcomes == {"ok", "err", "throw"}
\* executeCommand's response carries the command's id
ExecuteResponse(cmd, outcome) == Response(CmdId(cmd.id), outcome = "ok", cmd.id)

\* browser.isLaunched() after executeCommand(cmd) ended with outcome
LaunchedAfter(cmd, outcome, was) ==
    IF outcome = "ok" /\ cmd.action = "launch" THEN TRUE
    ELSE IF outcome = "ok" /\ cmd.action = "close" THEN FALSE
    ELSE was

\* the condition with the test of isLaunched() inverted
NeedsAutoLaunchInverted(isLaunched, cmd) ==
    isLaunched /\ cmd.action # "launch" /\ cmd.action # "close"

\* the condition of the implicit launch
NeedsAutoLaunch(isLaunched, cmd) ==
    ~isLaunched /\ cmd.action # "launch" /\ cmd.action # "close"

\* The while loop of the data handler from `buffer` up to its next await
\* (pc "launch": browser.launch() called; "exec": executeCommand() called)
\* or its end (pc "end"); out: the responses written on the way.
RECURSIVE Scan(_, _)
Scan(buffer, isLaunched) ==
    IF ~HasNL(buffer)
    THEN [out |-> <<>>, pc |-> "end", cmd |-> NoCmd, buf |-> buffer]
    ELSE LET newlineIdx == IndexOfNL(buffer)
             line == SubSeq(buffer, 1, newlineIdx - 1)
             rest == SubSeq(buffer, newlineIdx + 1, Len(buffer))
         IN  IF Trim(line) = <<>> THEN Scan(rest, isLaunched)
             ELSE LET pr == ParseCommand(line) IN
                  IF ~pr.success
                  THEN LET r == Scan(rest, isLaunched)
                       IN  [r EXCEPT !.out = <<ParseFailureResponse(pr, line)>> \o @]
                  ELSE IF NeedsAutoLaunch(isLaunched, pr.command)
                  THEN [out |-> <<>>, pc |-> "launch", cmd |-> pr.command, buf |-> rest]
                  ELSE [out |-> <<>>, pc |-> "exec", cmd |-> pr.command, buf |-> rest]

(* ------------------------------ inputs --------------------------------- *)
Conns == {"c1", "c2"}
LifeConns == {"c1"}
Markers == {"pid", "stream", "sock"}
\* the marker files a running daemon has written
MarkersOf(kind) ==
    IF kind = "streaming" THEN Markers ELSE IF kind = "plain" THEN {"pid", "sock"} ELSE {}
\* the calls a client process makes, possibly at the same time
ProbeCalls == {"p1", "p2"}
Viewers == 1..MaxViewers
\* the viewers that declare an origin and send messages
Guests == 1..MaxGuests

\* what a client sends on one connection: the streams tried against the
\* shutdown paths, and those tried against the protocol
LifeStreams ==
    { Cmd(1, "navigate") \o <<NL>> \o Cmd(2, "close") \o <<NL>>,
      Cmd(1, "close") \o <<NL>> }
PeerStreams == { Cmd(1, "navigate") \o <<NL>> }
Streams ==
    { Cmd(1, "navigate") \o <<NL>> \o Cmd(2, "close") \o <<NL>>,
      Cmd(1, "navigate") \o <<NL>> \o Cmd(2, "navigate") \o <<NL>>,
      Cmd(1, "close") \o <<NL>>,
      Cmd(1, "launch") \o <<NL>> \o Cmd(2, "navigate") \o <<NL>>,
      Bad(1) \o <<NL>> \o Cmd(2, "navigate") \o <<NL>>,
      BadId(1) \o <<NL, SP, NL>> \o Cmd(2, "navigate") \o <<NL>>,
      Http(1) \o <<NL>> \o Cmd(2, "navigate") \o <<NL>>,
      <<SP>> \o Http(1) \o <<NL>>,
      Junk(1) \o Junk(1) \o Cmd(1, "navigate") \o <<NL>> }

VARIABLES
    phase,        \* where startDaemon is: "boot", "cleanup", "stream", "pid", "bind", "running", "failed"
    files,        \* the marker files of the session that exist
    ioFaults,     \* marker deletions that have failed
    streamServer, \* streamServer !== null
    launched,     \* browser.isLaunched()
    shuttingDown, \* the shuttingDown flag of startDaemon
    sdPc,         \* where shutdown() is: "none", "streamStop", "streamFile", "browserClose", "cleanup"
    closeTimer,   \* the setTimeout of the close command is pending
    listening,    \* the listener accepts connections
    cleaningUp,   \* cleaningUp.has(session)
    cleanPc,      \* where the cleanupSocket call that holds the guard is
    cleanOwner,   \* who awaits that call
    exited,       \* process.exit was called
    exitCode,
    cstate,       \* per connection: "idle", "open", "closed"
    toSend,       \* per connection: what the client has yet to send
    chunks,       \* socket.data.chunks, joined
    httpChecked,  \* socket.data.httpChecked
    handlers,     \* per connection: the suspended invocations of the data handler
    resp,         \* per connection: the responses written, in order
    srv,          \* StreamServer.server !== null
    isScreencasting, \* StreamServer.isScreencasting
    clientCount,  \* StreamServer.clientCount
    vstate,       \* per viewer socket: "new", "open", "closed"
    casting,      \* the engine's capture pipeline runs
    startOps,     \* the viewers whose startScreencast() awaits the engine
    stopOps,      \* the stopScreencast() calls that await the engine
    stopPc,       \* where StreamServer.stop() is: "none", "screencast", "server", "done"
    lastMsg,      \* per viewer: the last message delivered to it
    stream,       \* history: per connection, everything its client sends
    firstChunk,   \* history: per connection, the content of its first data event
    faulted,      \* history: an uncaughtException or unhandledRejection handler ran
    session,      \* getPortForSession: the session name, as UTF-16 code units
    idx,          \* getPortForSession: the loop index i, 0 outside a call
    hash,         \* getPortForSession: hash, as two 16-bit halves <<high, low>>
    calls,        \* getPortForSession: the calls that have returned
    ports,        \* getPortForSession: the values returned
    peer,         \* another daemon of the same session that is live: "none", "plain", "streaming"
    peerFiles,    \* the marker files that exist as that daemon wrote them
    msgPc,        \* per viewer: where the handler of its last message is
    probe,        \* per call of isDaemonRunning / cleanupSocket by a client: where it is
    pidLive       \* the existence probe of the PID named by the PID file succeeds

connVars == <<cstate, toSend, chunks, httpChecked, handlers, resp, stream, firstChunk>>
lifeVars == <<phase, files, ioFaults, streamServer, shuttingDown, sdPc, closeTimer,
              listening, cleaningUp, cleanPc, cleanOwner, exited, exitCode, faulted>>
vars == <<phase, files, ioFaults, streamServer, launched, shuttingDown, sdPc, closeTimer,
          listening, cleaningUp, cleanPc, cleanOwner, exited, exitCode,
          cstate, toSend, chunks, httpChecked, handlers, resp,
          srv, isScreencasting, clientCount, vstate, casting, startOps, stopOps, stopPc,
          lastMsg, stream, firstChunk, faulted, probe, pidLive, msgPc, session, idx, hash,
          calls, ports, peer, peerFiles>>
probeVars == <<probe, pidLive>>
portVars == <<session, idx, hash, calls, ports>>
peerVars == <<peer, peerFiles>>
streamVars == <<srv, isScreencasting, clientCount, vstate, casting, startOps, stopOps, stopPc,
                lastMsg, msgPc>>

(* ------------------------------ startup -------------------------------- *)
Init ==
    /\ phase = "boot"
    /\ files \in {{}, Markers}       \* what an earlier daemon of the session left behind
    /\ ioFaults = 0
    /\ streamServer = FALSE
    /\ launched = FALSE
    /\ shuttingDown = FALSE
    /\ sdPc = "none"
    /\ closeTimer = "none"
    /\ listening = FALSE
    /\ cleaningUp = FALSE
    /\ cleanPc = "idle"
    /\ cleanOwner = "none"
    /\ exited = FALSE
    /\ exitCode = 0
    /\ cstate = [c \in Conns |-> "idle"]
    /\ toSend = [c \in Conns |-> <<>>]
    /\ chunks = [c \in Conns |-> <<>>]
    /\ httpChecked = [c \in Conns |-> FALSE]
    /\ handlers = [c \in Conns |-> <<>>]
    /\ resp = [c \in Conns |-> <<>>]
    /\ srv = FALSE
    /\ isScreencasting = FALSE
    /\ clientCount = 0
    /\ vstate = [v \in Viewers |-> "new"]
    /\ casting = FALSE
    /\ startOps = {}
    /\ stopOps = 0
    /\ stopPc = "none"
    /\ lastMsg = [v \in Viewers |-> "none"]
    /\ msgPc = [v \in Viewers |-> "none"]
    /\ session = <<>>
    /\ idx = 0
    /\ hash = <<0, 0>>
    /\ calls = 0
    /\ ports = {}
    /\ peer = "none"
    /\ peerFiles = {}
    /\ stream = [c \in Conns |-> <<>>]
    /\ firstChunk = [c \in Conns |-> <<>>]
    /\ faulted = FALSE
    /\ probe = [p \in ProbeCalls |-> "idle"]
    /\ pidLive = FALSE

\* exit codes in which only the signal path ends with success
ExitCodeOfSignalOnly(owner) == IF owner = "shutdown" THEN 0 ELSE 1

\* exit codes in which every path ends with success
ExitCodeOfAlwaysClean(owner) == 0

\* the exit code a caller of cleanupSocket passes to process.exit
ExitCodeOf(owner) == IF owner \in {"shutdown", "close"} THEN 0 ELSE 1

\* what follows `await cleanupSocket()` at its caller
AfterCleanup(owner) ==
    IF owner = "startup"
    THEN /\ phase' = "stream"
         /\ UNCHANGED <<exited, exitCode, probe>>
    ELSE IF owner \in ProbeCalls
    THEN /\ probe' = [probe EXCEPT ![owner] = IF @ \in {"idle", "call"} THEN "cleaned" ELSE "stale"]
         /\ UNCHANGED <<phase, exited, exitCode>>
    ELSE /\ exited' = TRUE
         /\ exitCode' = ExitCodeOf(owner)
         /\ UNCHANGED <<phase, probe>>

\* cleanupSocket() without `if (cleaningUp.has(sess)) return`
CleanupSocketUnguarded(owner) ==
    /\ cleaningUp' = TRUE
    /\ cleanPc' = "pid"
    /\ cleanOwner' = owner
    /\ UNCHANGED <<phase, exited, exitCode, probe>>

\* cleanupSocket() up to its first await: a call that finds the guard set
\* returns at once, and its caller goes on
CleanupSocket(owner) ==
    IF cleaningUp
    THEN /\ AfterCleanup(owner)
         /\ UNCHANGED <<cleaningUp, cleanPc, cleanOwner>>
    ELSE /\ cleaningUp' = TRUE
         /\ cleanPc' = "pid"
         /\ cleanOwner' = owner
         /\ UNCHANGED <<phase, exited, exitCode, probe>>

NextMarker(f) == IF f = "pid" THEN "stream" ELSE IF f = "stream" THEN "sock" ELSE "idle"

\* the finally block of cleanupSocket, and the caller's continuation
CleanupDone ==
    /\ cleaningUp' = FALSE
    /\ cleanPc' = "idle"
    /\ cleanOwner' = "none"
    /\ AfterCleanup(cleanOwner)

\* one `if (await f.exists()) await f.delete()` of the call holding the guard
CleanStep ==
    /\ ~exited
    /\ cleaningUp
    /\ \/ /\ files' = files \ {cleanPc}
          /\ UNCHANGED ioFaults
          /\ IF NextMarker(cleanPc) = "idle"
             THEN CleanupDone
             ELSE /\ cleanPc' = NextMarker(cleanPc)
                  /\ UNCHANGED <<cleaningUp, cleanOwner, phase, exited, exitCode, probe>>
       \/ /\ cleanPc \in files              \* delete() throws: catch, finally
          /\ ioFaults < MaxIoFaults
          /\ ioFaults' = ioFaults + 1
          /\ UNCHANGED files
          /\ CleanupDone
    /\ UNCHANGED <<streamServer, launched, shuttingDown, sdPc, closeTimer, listening>>
    /\ UNCHANGED connVars
    /\ UNCHANGED streamVars
    /\ UNCHANGED faulted
    /\ UNCHANGED pidLive
    /\ UNCHANGED portVars
    /\ UNCHANGED peer
    /\ peerFiles' = peerFiles \cap files'

\* startDaemon: mkdir, then `await cleanupSocket()`
StartCleanup ==
    /\ phase = "boot"
    /\ phase' = "cleanup"
    /\ cleaningUp' = TRUE
    /\ cleanPc' = "pid"
    /\ cleanOwner' = "startup"
    /\ UNCHANGED <<files, ioFaults, streamServer, launched, shuttingDown, sdPc, closeTimer,
                   listening, exited, exitCode>>
    /\ UNCHANGED connVars
    /\ UNCHANGED streamVars
    /\ UNCHANGED faulted
    /\ UNCHANGED probeVars
    /\ UNCHANGED portVars
    /\ UNCHANGED peerVars

\* a startup step threw: `await cleanupSocket().finally(() => process.exit(1))`
StartupFailure ==
    /\ phase' = "failed"
    /\ cleaningUp' = TRUE
    /\ cleanPc' = "pid"
    /\ cleanOwner' = "startupFail"
    /\ UNCHANGED <<exited, exitCode>>

\* streamPort > 0: streamServer.start(), then the stream-port file
StartStream ==
    /\ phase = "stream"
    /\ ~exited
    /\ \/ /\ phase' = "pid"                  \* streamPort is 0
          /\ UNCHANGED <<files, streamServer, srv, cleaningUp, cleanPc, cleanOwner, exited,
                         exitCode, peerFiles>>
       \/ /\ phase' = "pid"
          /\ streamServer' = TRUE
          /\ srv' = TRUE
          /\ files' = files \cup {"stream"}
          /\ peerFiles' = peerFiles \ {"stream"}
          /\ UNCHANGED <<cleaningUp, cleanPc, cleanOwner, exited, exitCode>>
       \/ /\ streamServer' = TRUE            \* start() throws
          /\ StartupFailure
          /\ UNCHANGED <<files, srv, peerFiles>>
       \/ /\ streamServer' = TRUE            \* Bun.write throws
          /\ srv' = TRUE
          /\ StartupFailure
          /\ UNCHANGED <<files, peerFiles>>
    /\ UNCHANGED <<ioFaults, launched, shuttingDown, sdPc, closeTimer, listening>>
    /\ UNCHANGED connVars
    /\ UNCHANGED <<isScreencasting, clientCount, vstate, casting, startOps, stopOps, stopPc,
                   lastMsg, msgPc>>
    /\ UNCHANGED faulted
    /\ UNCHANGED probeVars
    /\ UNCHANGED portVars
    /\ UNCHANGED peer

\* Bun.write(pidFile, process.pid)
WritePid ==
    /\ phase = "pid"
    /\ ~exited
    /\ \/ /\ phase' = "bind"
          /\ files' = files \cup {"pid"}
          /\ peerFiles' = peerFiles \ {"pid"}
          /\ UNCHANGED <<cleaningUp, cleanPc, cleanOwner, exited, exitCode>>
       \/ /\ StartupFailure
          /\ UNCHANGED <<files, peerFiles>>
    /\ UNCHANGED <<ioFaults, streamServer, launched, shuttingDown, sdPc, closeTimer, listening>>
    /\ UNCHANGED connVars
    /\ UNCHANGED streamVars
    /\ UNCHANGED faulted
    /\ UNCHANGED probeVars
    /\ UNCHANGED portVars
    /\ UNCHANGED peer

\* the port file (Windows) and Bun.listen; the handlers of the process are
\* installed in the same turn
Bind ==
    /\ phase = "bind"
    /\ ~exited
    /\ \/ /\ phase' = "running"
          /\ listening' = TRUE
          /\ files' = files \cup {"sock"}
          /\ peerFiles' = peerFiles \ {"sock"}
          /\ UNCHANGED <<cleaningUp, cleanPc, cleanOwner, exited, exitCode>>
       \/ /\ StartupFailure                  \* the port file cannot be written
          /\ UNCHANGED <<files, listening, peerFiles>>
       \/ /\ files' = files \cup {"sock"}    \* Bun.listen throws
          /\ peerFiles' = peerFiles \ {"sock"}
          /\ StartupFailure
          /\ UNCHANGED listening
    /\ UNCHANGED <<ioFaults, streamServer, launched, shuttingDown, sdPc, closeTimer>>
    /\ UNCHANGED connVars
    /\ UNCHANGED streamVars
    /\ UNCHANGED faulted
    /\ UNCHANGED probeVars
    /\ UNCHANGED portVars
    /\ UNCHANGED peer

(* ------------------------------ stream server: stop() ------------------ *)
\* `this.clientCount = 0; await this.server.stop(true)` of stop()
StopCloseServer ==
    IF srv
    THEN /\ clientCount' = 0
         /\ stopPc' = "server"
    ELSE /\ stopPc' = "done"
         /\ UNCHANGED clientCount

\* StreamServer.stop() up to its first await
StreamStopBegin ==
    IF isScreencasting
    THEN /\ stopPc' = "screencast"          \* await this.stopScreencast()
         /\ UNCHANGED clientCount
    ELSE StopCloseServer

(* ------------------------------ shutdown ------------------------------- *)
Running == phase = "running" /\ ~exited

\* server.stop(true): the listener stops and every connection is closed
StoppedConns == [c \in Conns |-> IF cstate[c] = "open" THEN "closed" ELSE cstate[c]]

\* shutdown() without its `if (shuttingDown) return` guard
shutdownUnguarded ==
    /\ shuttingDown' = TRUE
    /\ IF streamServer
       THEN /\ sdPc' = "streamStop"
            /\ StreamStopBegin
       ELSE /\ sdPc' = "browserClose"
            /\ UNCHANGED <<clientCount, stopPc>>
    /\ UNCHANGED <<phase, files, ioFaults, streamServer, launched, closeTimer, listening,
                   cleaningUp, cleanPc, cleanOwner, exited, exitCode, faulted>>
    /\ UNCHANGED connVars
    /\ UNCHANGED <<msgPc, srv, isScreencasting, vstate, casting, startOps, stopOps, lastMsg>>
    /\ UNCHANGED probeVars
    /\ UNCHANGED portVars
    /\ UNCHANGED peerVars

\* shutdown() that goes to browser.close() without stopping the stream server
shutdownSkippingStream ==
    IF shuttingDown
    THEN UNCHANGED vars
    ELSE /\ shuttingDown' = TRUE
         /\ sdPc' = "browserClose"
         /\ UNCHANGED <<clientCount, stopPc>>
         /\ UNCHANGED <<phase, files, ioFaults, streamServer, launched, closeTimer, listening,
                        cleaningUp, cleanPc, cleanOwner, exited, exitCode, faulted>>
         /\ UNCHANGED connVars
         /\ UNCHANGED <<msgPc, srv, isScreencasting, vstate, casting, startOps, stopOps, lastMsg>>
         /\ UNCHANGED probeVars
         /\ UNCHANGED portVars
         /\ UNCHANGED peerVars

\* SIGINT, SIGTERM, SIGHUP: shutdown() up to its first await
shutdown ==
    IF shuttingDown
    THEN UNCHANGED vars
    ELSE /\ shuttingDown' = TRUE
         /\ IF streamServer
            THEN /\ sdPc' = "streamStop"
                 /\ StreamStopBegin
            ELSE /\ sdPc' = "browserClose"
                 /\ UNCHANGED <<clientCount, stopPc>>
         /\ UNCHANGED <<phase, files, ioFaults, streamServer, launched, closeTimer, listening,
                        cleaningUp, cleanPc, cleanOwner, exited, exitCode, faulted>>
         /\ UNCHANGED connVars
         /\ UNCHANGED <<msgPc, srv, isScreencasting, vstate, casting, startOps, stopOps, lastMsg>>
         /\ UNCHANGED probeVars
         /\ UNCHANGED portVars
         /\ UNCHANGED peerVars

Signal ==
    /\ Running
    /\ shutdown

\* server.stop(true) resolved inside stop(): `this.server = null`
StreamServerClosed ==
    /\ ~exited
    /\ stopPc = "server"
    /\ srv' = FALSE
    /\ stopPc' = "done"
    /\ UNCHANGED <<isScreencasting, clientCount, vstate, casting, startOps, stopOps, lastMsg,
                   msgPc>>
    /\ UNCHANGED connVars
    /\ UNCHANGED launched
    /\ UNCHANGED lifeVars
    /\ UNCHANGED probeVars
    /\ UNCHANGED portVars
    /\ UNCHANGED peerVars

\* `await streamServer.stop()` resolved: streamServer = null, then the
\* stream-port file is looked up
SdStreamStopped ==
    /\ ~exited
    /\ sdPc = "streamStop"
    /\ stopPc = "done"
    /\ streamServer' = FALSE
    /\ sdPc' = "streamFile"
    /\ stopPc' = "none"
    /\ UNCHANGED <<phase, files, ioFaults, launched, shuttingDown, closeTimer, listening,
                   cleaningUp, cleanPc, cleanOwner, exited, exitCode>>
    /\ UNCHANGED connVars
    /\ UNCHANGED <<msgPc, srv, isScreencasting, clientCount, vstate, casting, startOps, stopOps, lastMsg>>
    /\ UNCHANGED faulted
    /\ UNCHANGED probeVars
    /\ UNCHANGED portVars
    /\ UNCHANGED peerVars

\* `if (await streamPortFile.exists()) await streamPortFile.delete()` in its
\* own try/catch, then browser.close() is called
SdStreamFile ==
    /\ ~exited
    /\ sdPc = "streamFile"
    /\ \/ /\ files' = files \ {"stream"}
          /\ UNCHANGED ioFaults
       \/ /\ "stream" \in files
          /\ ioFaults < MaxIoFaults
          /\ ioFaults' = ioFaults + 1
          /\ UNCHANGED files
    /\ sdPc' = "browserClose"
    /\ UNCHANGED <<phase, streamServer, launched, shuttingDown, closeTimer, listening,
                   cleaningUp, cleanPc, cleanOwner, exited, exitCode>>
    /\ UNCHANGED connVars
    /\ UNCHANGED streamVars
    /\ UNCHANGED faulted
    /\ UNCHANGED probeVars
    /\ UNCHANGED portVars
    /\ UNCHANGED peer
    /\ peerFiles' = peerFiles \cap files'

\* `await browser.close()` resolved: server.stop(true), then
\* `await cleanupSocket().finally(() => process.exit(0))`
SdBrowserClosed ==
    /\ ~exited
    /\ sdPc = "browserClose"
    /\ launched' = FALSE
    /\ listening' = FALSE
    /\ cstate' = StoppedConns
    /\ sdPc' = "cleanup"
    /\ CleanupSocket("shutdown")
    /\ UNCHANGED <<files, ioFaults, streamServer, shuttingDown, closeTimer>>
    /\ UNCHANGED <<toSend, chunks, httpChecked, handlers, resp>>
    /\ UNCHANGED streamVars
    /\ UNCHANGED faulted
    /\ UNCHANGED <<stream, firstChunk>>
    /\ UNCHANGED pidLive
    /\ UNCHANGED portVars
    /\ UNCHANGED peerVars

\* uncaughtException, unhandledRejection:
\* `await cleanupSocket().finally(() => process.exit(1))`
Fault ==
    /\ Running
    /\ CleanupSocket("fault")
    /\ UNCHANGED <<files, ioFaults, streamServer, launched, shuttingDown, sdPc, closeTimer,
                   listening>>
    /\ UNCHANGED connVars
    /\ UNCHANGED streamVars
    /\ faulted' = TRUE
    /\ UNCHANGED pidLive
    /\ UNCHANGED portVars
    /\ UNCHANGED peerVars

\* the setTimeout callback of the close command:
\* server.stop(true); await cleanupSocket().finally(() => process.exit(0))
CloseTimerFire ==
    /\ ~exited
    /\ closeTimer = "armed"
    /\ closeTimer' = "fired"
    /\ listening' = FALSE
    /\ cstate' = StoppedConns
    /\ CleanupSocket("close")
    /\ UNCHANGED <<files, ioFaults, streamServer, launched, shuttingDown, sdPc>>
    /\ UNCHANGED <<toSend, chunks, httpChecked, handlers, resp>>
    /\ UNCHANGED streamVars
    /\ UNCHANGED faulted
    /\ UNCHANGED <<stream, firstChunk>>
    /\ UNCHANGED pidLive
    /\ UNCHANGED portVars
    /\ UNCHANGED peerVars

(* ------------------------------ connections ---------------------------- *)
\* the open callback: socket.data = { chunks: [], httpChecked: false }
Connect(c, streams) ==
    /\ Running
    /\ listening
    /\ cstate[c] = "idle"
    /\ cstate' = [cstate EXCEPT ![c] = "open"]
    /\ \E s \in streams :
         /\ toSend' = [toSend EXCEPT ![c] = s]
         /\ stream' = [stream EXCEPT ![c] = s]
    /\ UNCHANGED firstChunk
    /\ chunks' = [chunks EXCEPT ![c] = <<>>]
    /\ httpChecked' = [httpChecked EXCEPT ![c] = FALSE]
    /\ UNCHANGED <<handlers, resp, launched>>
    /\ UNCHANGED lifeVars
    /\ UNCHANGED streamVars
    /\ UNCHANGED probeVars
    /\ UNCHANGED portVars
    /\ UNCHANGED peerVars

\* socket.write: nothing is delivered on a connection that is closed
Written(c, out) == IF cstate[c] = "open" THEN [resp EXCEPT ![c] = @ \o out] ELSE resp

RemoveAt(q, i) == SubSeq(q, 1, i - 1) \o SubSeq(q, i + 1, Len(q))

\* an invocation goes on with its loop from `buffer` after writing `out`:
\* up to the next await, or to `socketData.chunks = buffer ? [buffer] : []`
Continue(c, i, out, buffer, isLaunched) ==
    LET r == Scan(buffer, isLaunched) IN
    /\ resp' = Written(c, out \o r.out)
    /\ IF r.pc = "end"
       THEN /\ handlers' = [handlers EXCEPT ![c] = RemoveAt(@, i)]
            /\ chunks' = [chunks EXCEPT ![c] = r.buf]
       ELSE /\ handlers' = [handlers EXCEPT ![c][i] = [pc |-> r.pc, cmd |-> r.cmd, buf |-> r.buf]]
            /\ UNCHANGED chunks

\* where the transport may cut what is left to send into a data event: at
\* any byte, or at the ends of lines only
AnyCuts(s) == 1..Len(s)
LineCuts(s) == { n \in 1..Len(s) : s[n] = NL }

\* the data callback, up to its first await, for a data event that ends at
\* one of `cuts`
Data(c, cuts) ==
    /\ ~exited
    /\ cstate[c] = "open"
    /\ toSend[c] # <<>>
    /\ Len(handlers[c]) < MaxInvocations
    /\ \E n \in cuts :
         LET chunk == SubSeq(toSend[c], 1, n)
             buffer == chunks[c] \o chunk
         IN  /\ toSend' = [toSend EXCEPT ![c] = SubSeq(@, n + 1, Len(@))]
             /\ firstChunk' = IF toSend[c] = stream[c]
                              THEN [firstChunk EXCEPT ![c] = chunk] ELSE firstChunk
             /\ IF StrLen(chunks[c]) + StrLen(chunk) > MAX_BUFFER_SIZE
                THEN /\ cstate' = [cstate EXCEPT ![c] = "closed"]      \* socket.terminate()
                     /\ UNCHANGED <<chunks, httpChecked, handlers, resp>>
                ELSE IF ~httpChecked[c] /\ IsHttpRequest(TrimStart(buffer))
                THEN /\ cstate' = [cstate EXCEPT ![c] = "closed"]      \* socket.terminate()
                     /\ chunks' = [chunks EXCEPT ![c] = buffer]
                     /\ httpChecked' = [httpChecked EXCEPT ![c] = TRUE]
                     /\ UNCHANGED <<handlers, resp>>
                ELSE LET r == Scan(buffer, launched) IN
                     /\ httpChecked' = [httpChecked EXCEPT ![c] = TRUE]
                     /\ resp' = Written(c, r.out)
                     /\ IF r.pc = "end"
                        THEN /\ chunks' = [chunks EXCEPT ![c] = r.buf]
                             /\ UNCHANGED handlers
                        ELSE /\ chunks' = [chunks EXCEPT ![c] = buffer]
                             /\ handlers' = [handlers EXCEPT ![c] =
                                    Append(@, [pc |-> r.pc, cmd |-> r.cmd, buf |-> r.buf])]
                     /\ UNCHANGED cstate
    /\ UNCHANGED <<launched, stream>>
    /\ UNCHANGED lifeVars
    /\ UNCHANGED streamVars
    /\ UNCHANGED probeVars
    /\ UNCHANGED portVars
    /\ UNCHANGED peerVars

\* `await browser.launch(...)` of the implicit launch ends
LaunchDone(c, i) ==
    /\ ~exited
    /\ i \in 1..Len(handlers[c])
    /\ handlers[c][i].pc = "launch"
    /\ LET h == handlers[c][i] IN
       \E outcome \in LaunchOutcomes :
         IF outcome = "ok"
         THEN /\ launched' = TRUE
              /\ handlers' = [handlers EXCEPT ![c][i].pc = "exec"]   \* executeCommand is called
              /\ UNCHANGED <<chunks, resp>>
         ELSE /\ UNCHANGED launched
              /\ Continue(c, i, <<CatchResponse(h.cmd)>>, h.buf, launched)
    /\ UNCHANGED <<cstate, toSend, httpChecked>>
    /\ UNCHANGED lifeVars
    /\ UNCHANGED streamVars
    /\ UNCHANGED <<stream, firstChunk>>
    /\ UNCHANGED probeVars
    /\ UNCHANGED portVars
    /\ UNCHANGED peerVars

\* `await executeCommand(...)` ends
ExecDone(c, i) ==
    /\ ~exited
    /\ i \in 1..Len(handlers[c])
    /\ handlers[c][i].pc = "exec"
    /\ LET h == handlers[c][i] IN
       \E outcome \in ExecuteOutcomes :
         /\ launched' = LaunchedAfter(h.cmd, outcome, launched)
         /\ IF outcome = "throw"
            THEN /\ Continue(c, i, <<CatchResponse(h.cmd)>>, h.buf, launched)
                 /\ UNCHANGED <<shuttingDown, closeTimer>>
            ELSE IF h.cmd.action = "close"
            THEN /\ resp' = Written(c, <<ExecuteResponse(h.cmd, outcome)>>)
                 /\ handlers' = [handlers EXCEPT ![c] = RemoveAt(@, i)]   \* return
                 /\ UNCHANGED chunks
                 /\ IF ~shuttingDown
                    THEN /\ shuttingDown' = TRUE
                         /\ closeTimer' = "armed"
                    ELSE UNCHANGED <<shuttingDown, closeTimer>>
            ELSE /\ Continue(c, i, <<ExecuteResponse(h.cmd, outcome)>>, h.buf, launched')
                 /\ UNCHANGED <<shuttingDown, closeTimer>>
    /\ UNCHANGED <<cstate, toSend, httpChecked>>
    /\ UNCHANGED <<phase, files, ioFaults, streamServer, sdPc, listening, cleaningUp, cleanPc,
                   cleanOwner, exited, exitCode>>
    /\ UNCHANGED streamVars
    /\ UNCHANGED faulted
    /\ UNCHANGED <<stream, firstChunk>>
    /\ UNCHANGED probeVars
    /\ UNCHANGED portVars
    /\ UNCHANGED peerVars

(* ------------------------------ stream server -------------------------- *)
\* the outcomes of browser.startScreencast() and browser.stopScreencast()
EngineOutcomes == {"ok", "throw"}

\* statusMessage(): null while the engine has no page
StatusMessage(flag) ==
    IF ~launched THEN "none" ELSE IF flag THEN "status_true" ELSE "status_false"

\* sendStatus(ws): `if (message !== null) ws.send(...)`
SentStatus(msgs, v, flag) ==
    IF StatusMessage(flag) = "none" THEN msgs ELSE [msgs EXCEPT ![v] = StatusMessage(flag)]

\* broadcastStatus(): published to the subscribers of 'status'
Broadcast(msgs, flag) ==
    IF ~srv \/ StatusMessage(flag) = "none" THEN msgs
    ELSE [v \in Viewers |-> IF vstate[v] = "open" THEN StatusMessage(flag) ELSE msgs[v]]

\* an error that is published to every open viewer
SentErrorToAll(msgs, v) == [w \in Viewers |-> IF vstate[w] = "open" THEN "error" ELSE msgs[w]]

\* sendError(ws, message): nothing reaches a socket that is closed
SentError(msgs, v) == IF vstate[v] = "open" THEN [msgs EXCEPT ![v] = "error"] ELSE msgs

\* a condition that leaves out the test of the client count
OpenStartsWheneverIdle(count, flag) == count >= 1 /\ ~flag

\* the condition under which handleOpen calls startScreencast()
OpenStarts(count, flag) == count = 1 /\ ~flag

\* the websocket open callback: handleOpen(ws), with startScreencast() up to
\* its await
HandleOpen(v) ==
    /\ ~exited
    /\ srv
    /\ stopPc \notin {"server", "done"}
    /\ vstate[v] = "new"
    /\ vstate' = [vstate EXCEPT ![v] = "open"]
    /\ clientCount' = clientCount + 1
    /\ IF OpenStarts(clientCount', isScreencasting)
       THEN IF launched
            THEN /\ isScreencasting' = TRUE
                 /\ startOps' = startOps \cup {v}    \* await browser.startScreencast
                 /\ lastMsg' = SentStatus(lastMsg, v, isScreencasting)
            ELSE \* 'Browser not launched': the flag is set and reset, the
                 \* rejection is caught and reported to the viewer
                 /\ lastMsg' = [lastMsg EXCEPT ![v] = "error"]
                 /\ UNCHANGED <<isScreencasting, startOps>>
       ELSE /\ lastMsg' = SentStatus(lastMsg, v, isScreencasting)
            /\ UNCHANGED <<isScreencasting, startOps>>
    /\ UNCHANGED <<msgPc, srv, casting, stopOps, stopPc>>
    /\ UNCHANGED connVars
    /\ UNCHANGED launched
    /\ UNCHANGED lifeVars
    /\ UNCHANGED probeVars
    /\ UNCHANGED portVars
    /\ UNCHANGED peerVars

\* the condition under which handleClose calls stopScreencast()
CloseStops(count, flag) == count = 0 /\ flag

\* the websocket close callback: handleClose(ws), with stopScreencast() up
\* to its await
HandleClose(v) ==
    /\ ~exited
    /\ vstate[v] = "open"
    /\ vstate' = [vstate EXCEPT ![v] = "closed"]
    /\ clientCount' = clientCount - 1
    /\ IF CloseStops(clientCount', isScreencasting)
       THEN stopOps' = stopOps + 1               \* await browser.stopScreencast
       ELSE UNCHANGED stopOps
    /\ UNCHANGED <<msgPc, srv, isScreencasting, casting, startOps, stopPc, lastMsg>>
    /\ UNCHANGED connVars
    /\ UNCHANGED launched
    /\ UNCHANGED lifeVars
    /\ UNCHANGED probeVars
    /\ UNCHANGED portVars
    /\ UNCHANGED peerVars

\* `await this.browser.startScreencast(...)` of startScreencast() ends
StartDone(v) ==
    /\ ~exited
    /\ v \in startOps
    /\ startOps' = startOps \ {v}
    /\ \E outcome \in EngineOutcomes :
         IF outcome = "ok"
         THEN /\ casting' = TRUE
              /\ lastMsg' = Broadcast(lastMsg, isScreencasting)
              /\ UNCHANGED isScreencasting
         ELSE /\ isScreencasting' = FALSE          \* reset the flag, rethrow
              /\ lastMsg' = SentError(lastMsg, v)
              /\ UNCHANGED casting
    /\ UNCHANGED <<msgPc, srv, clientCount, vstate, stopOps, stopPc>>
    /\ UNCHANGED connVars
    /\ UNCHANGED launched
    /\ UNCHANGED lifeVars
    /\ UNCHANGED probeVars
    /\ UNCHANGED portVars
    /\ UNCHANGED peerVars

\* `await this.browser.stopScreencast()` of a stopScreencast() called by
\* handleClose ends
StopDone ==
    /\ ~exited
    /\ stopOps > 0
    /\ stopOps' = stopOps - 1
    /\ \E outcome \in EngineOutcomes :
         IF outcome = "ok"
         THEN /\ casting' = FALSE
              /\ isScreencasting' = FALSE
              /\ lastMsg' = Broadcast(lastMsg, FALSE)
         ELSE UNCHANGED <<casting, isScreencasting, lastMsg>>
    /\ UNCHANGED <<msgPc, srv, clientCount, vstate, startOps, stopPc>>
    /\ UNCHANGED connVars
    /\ UNCHANGED launched
    /\ UNCHANGED lifeVars
    /\ UNCHANGED probeVars
    /\ UNCHANGED portVars
    /\ UNCHANGED peerVars

\* the origin header of an upgrade request, as req.headers.get('origin') gives it
NoOrigin == [present |-> FALSE, text |-> <<>>]
Declared(text) == [present |-> TRUE, text |-> text]
FilePrefix == <<"f", "i", "l", "e", ":", "/", "/">>
Origins ==
    { NoOrigin,
      Declared(<<>>),
      Declared(FilePrefix),
      Declared(FilePrefix \o <<"/", "a">>),
      Declared(<<"f", "i", "l", "e", ":", "/">>),
      Declared(<<"F", "I", "L", "E", ":", "/", "/">>),
      Declared(<<"n", "u", "l", "l">>),
      Declared(<<"h", "t", "t", "p", ":", "/", "/", "a">>),
      Declared(<<"h", "t", "t", "p", ":", "/", "/">> \o FilePrefix) }

\* String.prototype.startsWith
StartsWith(s, prefix) == Len(s) >= Len(prefix) /\ SubSeq(s, 1, Len(prefix)) = prefix

\* a check that looks for file:// anywhere in the declared origin
OriginRejectedUnlessMentionsFile(o) ==
    /\ o.present
    /\ o.text # <<>>
    /\ ~\E i \in 1..Len(o.text) : StartsWith(SubSeq(o.text, i, Len(o.text)), FilePrefix)

\* fetch: `if (origin && !origin.startsWith('file://'))`, answered with 403
OriginRejected(o) == o.present /\ o.text # <<>> /\ ~StartsWith(o.text, FilePrefix)

\* the fetch callback: 403, or server.upgrade(req) and with it the open
\* callback, or 400 when the request cannot be upgraded
Fetch(v, o, upgradable) ==
    IF OriginRejected(o) \/ ~upgradable
    THEN /\ ~exited
         /\ srv
         /\ stopPc \notin {"server", "done"}
         /\ vstate[v] = "new"
         /\ vstate' = [vstate EXCEPT ![v] = IF OriginRejected(o) THEN "forbidden" ELSE "refused"]
         /\ UNCHANGED <<msgPc, srv, isScreencasting, clientCount, casting, startOps, stopOps,
                        stopPc, lastMsg>>
         /\ UNCHANGED connVars
         /\ UNCHANGED launched
         /\ UNCHANGED lifeVars
         /\ UNCHANGED probeVars
         /\ UNCHANGED portVars
         /\ UNCHANGED peerVars
    ELSE HandleOpen(v)

\* what a viewer sends: text that is no JSON, JSON null, JSON of no known
\* type, a status request, an input event
MessageKinds == {"garbage", "null", "unknown", "status", "input"}

\* the websocket message callback: handleMessage(ws, data) up to its await
HandleMessage(v, kind) ==
    /\ ~exited
    /\ srv
    /\ vstate[v] = "open"
    /\ msgPc[v] # "inject"
    /\ IF kind \in {"garbage", "null"}            \* JSON.parse or message.type throws
       THEN /\ lastMsg' = SentError(lastMsg, v)
            /\ msgPc' = [msgPc EXCEPT ![v] = "caught"]
       ELSE IF kind = "status"
       THEN /\ lastMsg' = SentStatus(lastMsg, v, isScreencasting)
            /\ msgPc' = [msgPc EXCEPT ![v] = "none"]
       ELSE IF kind = "input"
       THEN /\ msgPc' = [msgPc EXCEPT ![v] = "inject"]  \* await browser.inject...Event
            /\ UNCHANGED lastMsg
       ELSE /\ msgPc' = [msgPc EXCEPT ![v] = "none"]     \* no case of the switch
            /\ UNCHANGED lastMsg
    /\ UNCHANGED <<srv, isScreencasting, clientCount, vstate, casting, startOps, stopOps, stopPc>>
    /\ UNCHANGED connVars
    /\ UNCHANGED launched
    /\ UNCHANGED lifeVars
    /\ UNCHANGED probeVars
    /\ UNCHANGED portVars
    /\ UNCHANGED peerVars

\* `await this.browser.inject...Event(...)` of handleMessage ends
InjectDone(v, outcome) ==
    /\ ~exited
    /\ msgPc[v] = "inject"
    /\ IF outcome = "ok"
       THEN /\ msgPc' = [msgPc EXCEPT ![v] = "none"]
            /\ UNCHANGED lastMsg
       ELSE /\ lastMsg' = SentError(lastMsg, v)
            /\ msgPc' = [msgPc EXCEPT ![v] = "caught"]
    /\ UNCHANGED <<srv, isScreencasting, clientCount, vstate, casting, startOps, stopOps, stopPc>>
    /\ UNCHANGED connVars
    /\ UNCHANGED launched
    /\ UNCHANGED lifeVars
    /\ UNCHANGED probeVars
    /\ UNCHANGED portVars
    /\ UNCHANGED peerVars

\* the stopScreencast() awaited by stop() ends; when it throws, shutdown()
\* rejects and the unhandledRejection handler runs
StreamStopScreencastDone ==
    /\ ~exited
    /\ stopPc = "screencast"
    /\ \E outcome \in EngineOutcomes :
         IF outcome = "ok"
         THEN /\ casting' = FALSE
              /\ isScreencasting' = FALSE
              /\ lastMsg' = Broadcast(lastMsg, FALSE)
              /\ StopCloseServer
              /\ UNCHANGED <<phase, cleaningUp, cleanPc, cleanOwner, exited, exitCode, faulted,
                             probe>>
         ELSE /\ stopPc' = "failed"
              /\ CleanupSocket("fault")
              /\ faulted' = TRUE
              /\ UNCHANGED <<casting, isScreencasting, lastMsg, clientCount>>
    /\ UNCHANGED <<msgPc, srv, vstate, startOps, stopOps>>
    /\ UNCHANGED connVars
    /\ UNCHANGED launched
    /\ UNCHANGED <<files, ioFaults, streamServer, shuttingDown, sdPc, closeTimer, listening>>
    /\ UNCHANGED pidLive
    /\ UNCHANGED portVars
    /\ UNCHANGED peerVars

\* the engine is launched by a command of the daemon
EngineLaunch ==
    /\ Running
    /\ ~launched
    /\ launched' = TRUE
    /\ UNCHANGED connVars
    /\ UNCHANGED lifeVars
    /\ UNCHANGED streamVars
    /\ UNCHANGED probeVars
    /\ UNCHANGED portVars
    /\ UNCHANGED peerVars

(* ------------------- a client asking whether the daemon runs ------------ *)

\* everything the daemon side owns, which a client's call never touches
daemonSide == <<streamServer, launched, shuttingDown, sdPc, closeTimer, listening, faulted>>

\* isDaemonRunning up to its first return: `if (!(await pidFile.exists())) return false`
ProbeExists(p) ==
    /\ phase = "client"
    /\ probe[p] = "idle"
    /\ probe' = [probe EXCEPT ![p] = IF "pid" \in files THEN "text" ELSE "absent"]
    /\ UNCHANGED <<phase, files, ioFaults, cleaningUp, cleanPc, cleanOwner, exited, exitCode,
                   pidLive>>
    /\ UNCHANGED portVars
    /\ UNCHANGED peerVars
    /\ UNCHANGED daemonSide
    /\ UNCHANGED connVars
    /\ UNCHANGED streamVars

\* the try block of isDaemonRunning: text(), parseInt, process.kill(pid, 0); a
\* throw of any of them enters the catch, which awaits cleanupSocket
ProbeRead(p) ==
    /\ phase = "client"
    /\ probe[p] = "text"
    /\ IF "pid" \in files /\ pidLive
       THEN /\ probe' = [probe EXCEPT ![p] = "running"]
            /\ UNCHANGED <<phase, cleaningUp, cleanPc, cleanOwner, exited, exitCode>>
       ELSE IF cleaningUp
       THEN CleanupSocket(p)
       ELSE /\ cleaningUp' = TRUE
            /\ cleanPc' = "pid"
            /\ cleanOwner' = p
            /\ probe' = [probe EXCEPT ![p] = "cleanup"]
            /\ UNCHANGED <<phase, exited, exitCode>>
    /\ UNCHANGED <<files, ioFaults, pidLive>>
    /\ UNCHANGED portVars
    /\ UNCHANGED peerVars
    /\ UNCHANGED daemonSide
    /\ UNCHANGED connVars
    /\ UNCHANGED streamVars

\* a client's own call of the exported cleanupSocket
CallCleanup(p) ==
    /\ phase = "client"
    /\ probe[p] = "idle"
    /\ IF cleaningUp
       THEN CleanupSocket(p)
       ELSE /\ cleaningUp' = TRUE
            /\ cleanPc' = "pid"
            /\ cleanOwner' = p
            /\ probe' = [probe EXCEPT ![p] = "call"]
            /\ UNCHANGED <<phase, exited, exitCode>>
    /\ UNCHANGED <<files, ioFaults, pidLive>>
    /\ UNCHANGED portVars
    /\ UNCHANGED peerVars
    /\ UNCHANGED daemonSide
    /\ UNCHANGED connVars
    /\ UNCHANGED streamVars

InitProbe ==
    /\ phase = "client"
    /\ files \in SUBSET Markers
    /\ ioFaults = 0
    /\ streamServer = FALSE
    /\ launched = FALSE
    /\ shuttingDown = FALSE
    /\ sdPc = "none"
    /\ closeTimer = "none"
    /\ listening = FALSE
    /\ cleaningUp = FALSE
    /\ cleanPc = "idle"
    /\ cleanOwner = "none"
    /\ exited = FALSE
    /\ exitCode = 0
    /\ cstate = [c \in Conns |-> "idle"]
    /\ toSend = [c \in Conns |-> <<>>]
    /\ chunks = [c \in Conns |-> <<>>]
    /\ httpChecked = [c \in Conns |-> FALSE]
    /\ handlers = [c \in Conns |-> <<>>]
    /\ resp = [c \in Conns |-> <<>>]
    /\ srv = FALSE
    /\ isScreencasting = FALSE
    /\ clientCount = 0
    /\ vstate = [v \in Viewers |-> "new"]
    /\ casting = FALSE
    /\ startOps = {}
    /\ stopOps = 0
    /\ stopPc = "none"
    /\ lastMsg = [v \in Viewers |-> "none"]
    /\ msgPc = [v \in Viewers |-> "none"]
    /\ session = <<>>
    /\ idx = 0
    /\ hash = <<0, 0>>
    /\ calls = 0
    /\ ports = {}
    /\ peer = "none"
    /\ peerFiles = {}
    /\ stream = [c \in Conns |-> <<>>]
    /\ firstChunk = [c \in Conns |-> <<>>]
    /\ faulted = FALSE
    /\ probe = [p \in ProbeCalls |-> "idle"]
    /\ pidLive \in BOOLEAN

NextProbe ==
    \/ \E p \in ProbeCalls : ProbeExists(p)
    \/ \E p \in ProbeCalls : ProbeRead(p)
    \/ \E p \in ProbeCalls : CallCleanup(p)
    \/ CleanStep

SpecProbe == InitProbe /\ [][NextProbe]_vars

(* ------------------------------ getPortForSession ---------------------- *)
\* A 32-bit value is kept as its two 16-bit halves <<high, low>>, so that no
\* intermediate result leaves the 32-bit integers TLC computes with.
Half == 2^16

\* `x << 5` on a 32-bit value
ShiftLeft5(x) ==
    LET low == x[2] * 32 IN <<(x[1] * 32 + low \div Half) % Half, low % Half>>

\* x - y, kept to 32 bits by the `|= 0` that ends the statement
Minus32(x, y) ==
    LET borrow == IF x[2] < y[2] THEN 1 ELSE 0
    IN  <<(x[1] - y[1] - borrow + 2 * Half) % Half, (x[2] - y[2] + Half) % Half>>

\* x + unit for a UTF-16 code unit, kept to 32 bits by `|= 0`
Plus32(x, unit) ==
    LET low == x[2] + unit IN <<(x[1] + low \div Half) % Half, low % Half>>

\* the body of the loop: hash = (hash << 5) - hash + charCodeAt(i); hash |= 0
HashStepOf(x, unit) == Plus32(Minus32(ShiftLeft5(x), x), unit)

\* the number a 32-bit pattern stands for: its sign and its magnitude, the
\* magnitude of the most negative value being 2^31
Signed(x) ==
    IF x[1] >= Half \div 2
    THEN [neg |-> TRUE, mag |-> Plus32(<<Half - 1 - x[1], Half - 1 - x[2]>>, 1)]
    ELSE [neg |-> FALSE, mag |-> x]

\* an absolute value computed in 32 bits, which leaves the most negative value
\* negative
MathAbsInt32(n) == IF n.mag = <<Half \div 2, 0>> THEN n ELSE [neg |-> FALSE, mag |-> n.mag]

\* Math.abs, on numbers
MathAbs(n) == [neg |-> FALSE, mag |-> n.mag]

\* n % 16383: the sign of the dividend, and 2^16 % 16383 = 4
Rem16383(n) ==
    LET r == ((n.mag[1] % 16383) * 4 + n.mag[2]) % 16383 IN IF n.neg THEN 0 - r ELSE r

\* return 49152 + (Math.abs(hash) % 16383)
PortOf(x) == 49152 + Rem16383(MathAbs(Signed(x)))

\* code units of session names: a, z and the largest code unit
NameUnits == {97, 122, 65535}

\* "default", "agent-1" whose hash is negative, a name whose hash is the most
\* negative 32-bit value ("xfjfxtf"), and a name of the largest code units
DefaultName == <<100, 101, 102, 97, 117, 108, 116>>
NegativeName == <<97, 103, 101, 110, 116, 45, 49>>
MostNegativeName == <<120, 102, 106, 102, 120, 116, 102>>
LongName == <<65535, 65535, 65535, 65535, 65535, 65535, 65535, 65535>>

RECURSIVE NamesUpTo(_)
NamesUpTo(n) ==
    IF n = 0 THEN {<<>>}
    ELSE LET shorter == NamesUpTo(n - 1)
         IN  shorter \cup { Append(name, unit) : name \in shorter, unit \in NameUnits }

SessionNames == NamesUpTo(MaxNameLen) \cup {DefaultName, NegativeName, MostNegativeName, LongName}

\* getPortForSession(session) is called: let hash = 0, i = 0
PortCall ==
    /\ phase = "port"
    /\ idx = 0
    /\ calls < MaxCalls
    /\ hash' = <<0, 0>>
    /\ idx' = 1
    /\ UNCHANGED <<session, calls, ports>>
    /\ UNCHANGED connVars
    /\ UNCHANGED launched
    /\ UNCHANGED lifeVars
    /\ UNCHANGED streamVars
    /\ UNCHANGED probeVars
    /\ UNCHANGED peerVars

\* one iteration of the for loop
HashStep ==
    /\ phase = "port"
    /\ idx \in 1..Len(session)
    /\ hash' = HashStepOf(hash, session[idx])
    /\ idx' = idx + 1
    /\ UNCHANGED <<session, calls, ports>>
    /\ UNCHANGED connVars
    /\ UNCHANGED launched
    /\ UNCHANGED lifeVars
    /\ UNCHANGED streamVars
    /\ UNCHANGED probeVars
    /\ UNCHANGED peerVars

\* the loop has ended: return
PortReturn ==
    /\ phase = "port"
    /\ idx = Len(session) + 1
    /\ ports' = ports \cup {PortOf(hash)}
    /\ calls' = calls + 1
    /\ idx' = 0
    /\ UNCHANGED <<session, hash>>
    /\ UNCHANGED connVars
    /\ UNCHANGED launched
    /\ UNCHANGED lifeVars
    /\ UNCHANGED streamVars
    /\ UNCHANGED probeVars
    /\ UNCHANGED peerVars

\* The port of a session, computed more than once.
InitPort ==
    /\ phase = "port"
    /\ files = {}
    /\ ioFaults = 0
    /\ streamServer = FALSE
    /\ launched = FALSE
    /\ shuttingDown = FALSE
    /\ sdPc = "none"
    /\ closeTimer = "none"
    /\ listening = FALSE
    /\ cleaningUp = FALSE
    /\ cleanPc = "idle"
    /\ cleanOwner = "none"
    /\ exited = FALSE
    /\ exitCode = 0
    /\ cstate = [c \in Conns |-> "idle"]
    /\ toSend = [c \in Conns |-> <<>>]
    /\ chunks = [c \in Conns |-> <<>>]
    /\ httpChecked = [c \in Conns |-> FALSE]
    /\ handlers = [c \in Conns |-> <<>>]
    /\ resp = [c \in Conns |-> <<>>]
    /\ srv = FALSE
    /\ isScreencasting = FALSE
    /\ clientCount = 0
    /\ vstate = [v \in Viewers |-> "new"]
    /\ casting = FALSE
    /\ startOps = {}
    /\ stopOps = 0
    /\ stopPc = "none"
    /\ lastMsg = [v \in Viewers |-> "none"]
    /\ msgPc = [v \in Viewers |-> "none"]
    /\ session \in SessionNames
    /\ idx = 0
    /\ hash = <<0, 0>>
    /\ calls = 0
    /\ ports = {}
    /\ peer = "none"
    /\ peerFiles = {}
    /\ stream = [c \in Conns |-> <<>>]
    /\ firstChunk = [c \in Conns |-> <<>>]
    /\ faulted = FALSE
    /\ probe = [p \in ProbeCalls |-> "idle"]
    /\ pidLive = FALSE

NextPort ==
    \/ PortCall
    \/ HashStep
    \/ PortReturn

SpecPort == InitPort /\ [][NextPort]_vars

(* ------------------------------ specification -------------------------- *)
Next ==
    \/ StartCleanup
    \/ CleanStep
    \/ StartStream
    \/ WritePid
    \/ Bind
    \/ Signal
    \/ StreamServerClosed
    \/ SdStreamStopped
    \/ SdStreamFile
    \/ SdBrowserClosed
    \/ Fault
    \/ CloseTimerFire
    \/ \E c \in LifeConns : Connect(c, LifeStreams)
    \/ \E c \in LifeConns : Data(c, LineCuts(toSend[c]))
    \/ \E c \in LifeConns, i \in 1..MaxInvocations : LaunchDone(c, i)
    \/ \E c \in LifeConns, i \in 1..MaxInvocations : ExecDone(c, i)

Spec == Init /\ [][Next]_vars

\* A daemon started for a session that another, live daemon serves.
InitPeer ==
    /\ peer \in {"plain", "streaming"}
    /\ peerFiles = MarkersOf(peer)
    /\ phase = "boot"
    /\ files = peerFiles
    /\ ioFaults = 0
    /\ streamServer = FALSE
    /\ launched = FALSE
    /\ shuttingDown = FALSE
    /\ sdPc = "none"
    /\ closeTimer = "none"
    /\ listening = FALSE
    /\ cleaningUp = FALSE
    /\ cleanPc = "idle"
    /\ cleanOwner = "none"
    /\ exited = FALSE
    /\ exitCode = 0
    /\ cstate = [c \in Conns |-> "idle"]
    /\ toSend = [c \in Conns |-> <<>>]
    /\ chunks = [c \in Conns |-> <<>>]
    /\ httpChecked = [c \in Conns |-> FALSE]
    /\ handlers = [c \in Conns |-> <<>>]
    /\ resp = [c \in Conns |-> <<>>]
    /\ srv = FALSE
    /\ isScreencasting = FALSE
    /\ clientCount = 0
    /\ vstate = [v \in Viewers |-> "new"]
    /\ casting = FALSE
    /\ startOps = {}
    /\ stopOps = 0
    /\ stopPc = "none"
    /\ lastMsg = [v \in Viewers |-> "none"]
    /\ msgPc = [v \in Viewers |-> "none"]
    /\ session = <<>>
    /\ idx = 0
    /\ hash = <<0, 0>>
    /\ calls = 0
    /\ ports = {}

    /\ stream = [c \in Conns |-> <<>>]
    /\ firstChunk = [c \in Conns |-> <<>>]
    /\ faulted = FALSE
    /\ probe = [p \in ProbeCalls |-> "idle"]
    /\ pidLive = FALSE

SpecPeer == InitPeer /\ [][Next]_vars

\* The protocol on its own: the daemon is listening, streaming disabled.
InitConn ==
    /\ phase = "running"
    /\ files = {"pid", "sock"}
    /\ ioFaults = 0
    /\ streamServer = FALSE
    /\ launched = FALSE
    /\ shuttingDown = FALSE
    /\ sdPc = "none"
    /\ closeTimer = "none"
    /\ listening = TRUE
    /\ cleaningUp = FALSE
    /\ cleanPc = "idle"
    /\ cleanOwner = "none"
    /\ exited = FALSE
    /\ exitCode = 0
    /\ cstate = [c \in Conns |-> "idle"]
    /\ toSend = [c \in Conns |-> <<>>]
    /\ chunks = [c \in Conns |-> <<>>]
    /\ httpChecked = [c \in Conns |-> FALSE]
    /\ handlers = [c \in Conns |-> <<>>]
    /\ resp = [c \in Conns |-> <<>>]
    /\ srv = FALSE
    /\ isScreencasting = FALSE
    /\ clientCount = 0
    /\ vstate = [v \in Viewers |-> "new"]
    /\ casting = FALSE
    /\ startOps = {}
    /\ stopOps = 0
    /\ stopPc = "none"
    /\ lastMsg = [v \in Viewers |-> "none"]
    /\ msgPc = [v \in Viewers |-> "none"]
    /\ session = <<>>
    /\ idx = 0
    /\ hash = <<0, 0>>
    /\ calls = 0
    /\ ports = {}
    /\ peer = "none"
    /\ peerFiles = {}
    /\ stream = [c \in Conns |-> <<>>]
    /\ firstChunk = [c \in Conns |-> <<>>]
    /\ faulted = FALSE
    /\ probe = [p \in ProbeCalls |-> "idle"]
    /\ pidLive = FALSE

NextConn ==
    \/ Connect("c1", Streams)
    \/ Connect("c2", PeerStreams)
    \/ Data("c1", AnyCuts(toSend["c1"]))
    \/ Data("c2", LineCuts(toSend["c2"]))
    \/ \E c \in Conns, i \in 1..MaxInvocations : LaunchDone(c, i)
    \/ \E c \in Conns, i \in 1..MaxInvocations : ExecDone(c, i)
    \/ CloseTimerFire
    \/ CleanStep

SpecConn == InitConn /\ [][NextConn]_vars

\* The stream server on its own: the daemon is listening, streaming enabled.
InitStream ==
    /\ phase = "running"
    /\ files = Markers
    /\ ioFaults = 0
    /\ streamServer = TRUE
    /\ launched = FALSE
    /\ shuttingDown = FALSE
    /\ sdPc = "none"
    /\ closeTimer = "none"
    /\ listening = TRUE
    /\ cleaningUp = FALSE
    /\ cleanPc = "idle"
    /\ cleanOwner = "none"
    /\ exited = FALSE
    /\ exitCode = 0
    /\ cstate = [c \in Conns |-> "idle"]
    /\ toSend = [c \in Conns |-> <<>>]
    /\ chunks = [c \in Conns |-> <<>>]
    /\ httpChecked = [c \in Conns |-> FALSE]
    /\ handlers = [c \in Conns |-> <<>>]
    /\ resp = [c \in Conns |-> <<>>]
    /\ srv = TRUE
    /\ isScreencasting = FALSE
    /\ clientCount = 0
    /\ vstate = [v \in Viewers |-> "new"]
    /\ casting = FALSE
    /\ startOps = {}
    /\ stopOps = 0
    /\ stopPc = "none"
    /\ lastMsg = [v \in Viewers |-> "none"]
    /\ msgPc = [v \in Viewers |-> "none"]
    /\ session = <<>>
    /\ idx = 0
    /\ hash = <<0, 0>>
    /\ calls = 0
    /\ ports = {}
    /\ peer = "none"
    /\ peerFiles = {}
    /\ stream = [c \in Conns |-> <<>>]
    /\ firstChunk = [c \in Conns |-> <<>>]
    /\ faulted = FALSE
    /\ probe = [p \in ProbeCalls |-> "idle"]
    /\ pidLive = FALSE

NextStream ==
    \/ \E v \in Viewers : HandleOpen(v)
    \/ \E v \in Viewers : HandleClose(v)
    \/ \E v \in Viewers : StartDone(v)
    \/ StopDone
    \/ EngineLaunch
    \/ Signal
    \/ StreamStopScreencastDone
    \/ StreamServerClosed
    \/ CleanStep

SpecStream == InitStream /\ [][NextStream]_vars

\* The viewers of the stream server: upgrade requests and inbound messages.
NextViewer ==
    \/ \E v \in Guests, o \in Origins, upgradable \in BOOLEAN : Fetch(v, o, upgradable)
    \/ \E v \in Guests, kind \in MessageKinds : HandleMessage(v, kind)
    \/ \E v \in Guests, outcome \in EngineOutcomes : InjectDone(v, outcome)
    \/ \E v \in Guests : HandleClose(v)
    \/ \E v \in Guests : StartDone(v)
    \/ StopDone
    \/ EngineLaunch

SpecViewer == InitStream /\ [][NextViewer]_vars

(* ====================== properties: the command socket ================== *)
\* the line of ordinal k in what the client of connection c sends
SentLine(c, k) ==
    LET OfLine(a) == a[2] = k IN SelectSeq(stream[c], OfLine)

\* the number of implicit launches in flight, over all connections
LaunchesInFlight ==
    Cardinality({ ci \in Conns \X (1..MaxInvocations) :
                    /\ ci[2] <= Len(handlers[ci[1]])
                    /\ handlers[ci[1]][ci[2]].pc = "launch" })

\* C1: every response written for a line whose id is available (the line
\* parsed, or failed to parse as JSON carrying an id) carries that id, whatever
\* the engine, the implicit launch or the executor did; a sentinel id appears
\* only for lines with no id.
C1_ResponseCarriesCommandId ==
    \A c \in Conns : \A i \in 1..Len(resp[c]) :
        LET r == resp[c][i]
            pr == ParseCommand(SentLine(c, r.src))
        IN  pr.hasId => r.id = CmdId(pr.command.id)

\* C3: the implicit launch runs at most once at a time: no second implicit
\* launch is in flight while an earlier one has not ended.
C3_SingleImplicitLaunch == LaunchesInFlight <= 1

\* C4: on every connection the responses are written in the order in which
\* their lines arrived, for every chunking of the stream and every
\* interleaving of the other connection.
C4_ResponsesInArrivalOrder ==
    \A c \in Conns : \A i, j \in 1..Len(resp[c]) :
        i < j => resp[c][i].src <= resp[c][j].src

\* s begins, after optional leading whitespace, with a method keyword
\* followed by whitespace
BeginsWithRequestLine(s) ==
    \E n \in 0..Len(s) :
        /\ \A i \in 1..n : s[i][1] \in {"sp", "nl"}
        /\ Len(s) >= n + 3
        /\ s[n + 1][1] = "m1"
        /\ s[n + 2][1] = "m2"
        /\ s[n + 3][1] \in {"sp", "nl"}

\* C10 as stated: a connection whose bytes begin (after leading whitespace)
\* with an HTTP request line gets no response and no command of it is
\* dispatched, however the request line is split over data events.
C10_HttpStreamGetsNothing ==
    \A c \in Conns :
        BeginsWithRequestLine(stream[c]) => resp[c] = <<>> /\ handlers[c] = <<>>

\* C10 amended: a connection whose FIRST data event carries (after leading
\* whitespace) a method keyword followed by whitespace is terminated, no
\* response is written on it and no command of it is dispatched.
C10_HttpFirstChunkTerminated ==
    \A c \in Conns :
        BeginsWithRequestLine(firstChunk[c]) =>
            cstate[c] = "closed" /\ resp[c] = <<>> /\ handlers[c] = <<>>

\* a connection was terminated on its first data event, more bytes unsent
C10_Witness ==
    \E c \in Conns :
        /\ BeginsWithRequestLine(firstChunk[c])
        /\ cstate[c] = "closed"
        /\ toSend[c] # <<>>
        /\ httpChecked[c]

(* ====================== properties: the stream server =================== *)
\* another viewer than v is connected
OthersOpen(v) == \E w \in Viewers \ {v} : vstate[w] = "open"

\* C7: the capture pipeline is never started while a capture is running or a
\* start is in flight: at most one start is in flight, and none while the
\* capture runs.
C7_NoOverlappingStart ==
    /\ Cardinality(startOps) <= 1
    /\ ~(casting /\ startOps # {})

C9_LastDisconnectStops ==
    [][ \A v \in Viewers :
          ( /\ vstate[v] = "open" /\ vstate'[v] = "closed"
            /\ ~OthersOpen(v)
            /\ casting
            /\ ~shuttingDown /\ stopOps = 0 )
          => stopOps' = 1 ]_vars

(* ====================== properties: exit paths ========================== *)
\* C2: whenever the process has exited, the PID file, the stream-port file
\* and the socket/port file are absent (stated for the runs in which no
\* deletion failed).
C2_NoMarkersAfterExit == (exited /\ ioFaults = 0) => files = {}

\* a response to a close command was written on connection c
CloseAnswered(c) ==
    \E i \in 1..Len(resp[c]) :
        /\ resp[c][i].id.tag = "cmd"
        /\ ParseCommand(SentLine(c, resp[c][i].src)).command.action = "close"

SpecLive == Spec /\ WF_vars(CloseTimerFire) /\ WF_vars(CleanStep)

(* ====================== properties: buffer bound ======================== *)
\* the bytes of the data event that a step delivers on connection c
Delivered(c) == SubSeq(toSend[c], 1, Len(toSend[c]) - Len(toSend'[c]))

\* a step is a data event on connection c
IsDataEvent(c) == cstate[c] = "open" /\ Len(toSend'[c]) < Len(toSend[c])

\* C11: a data event that would bring the accumulated data of a connection
\* above 4 MiB terminates the connection, writes no response and dispatches
\* nothing; in every reachable state a connection buffer holds at most 4 MiB.
C11_BufferBounded ==
    /\ [](\A c \in Conns : StrLen(chunks[c]) <= 4 * 1024 * 1024)
    /\ [][ \A c \in Conns :
             (IsDataEvent(c) /\ StrLen(chunks[c]) + StrLen(Delivered(c)) > 4 * 1024 * 1024) =>
                 /\ cstate'[c] = "closed"
                 /\ resp'[c] = resp[c]
                 /\ handlers'[c] = handlers[c]
                 /\ chunks'[c] = chunks[c] ]_vars

\* a connection holding exactly 4 MiB was terminated by its next data event
C11_Witness ==
    \E c \in Conns :
        /\ cstate[c] = "closed"
        /\ StrLen(chunks[c]) = 4 * 1024 * 1024
        /\ StrLen(stream[c]) > 4 * 1024 * 1024
        /\ Len(toSend[c]) < 3
        /\ resp[c] = <<>>

(* ====================== properties: error responses ===================== *)
\* the positions of the error responses written on connection c for its line
\* of ordinal k: those of the parse-failure branch and of the catch block
ErrorResponsesFor(c, k) ==
    { i \in 1..Len(resp[c]) :
        /\ resp[c][i].src = k
        /\ \/ resp[c][i].id.tag = "error"
           \/ ~ParseCommand(SentLine(c, k)).success }

Enters(c, i, at) ==
    /\ i \in 1..Len(handlers'[c])
    /\ handlers'[c][i].pc = at
    /\ Len(handlers'[c]) >= Len(handlers[c])
    /\ (i > Len(handlers[c]) \/ handlers[c][i] # handlers'[c][i])

\* C13: a command other than launch and close is handed to the executor only
\* with the engine launched; the implicit launch is entered only for such a
\* command and with the engine not launched; an invocation whose implicit
\* launch throws answers with an error and does not execute the command.
C13_ExecutedOnlyWhenLaunched ==
    [][ \A c \in Conns : \A i \in 1..MaxInvocations :
          /\ (Enters(c, i, "exec") /\ handlers'[c][i].cmd.action \notin {"launch", "close"})
                => launched'
          /\ Enters(c, i, "launch")
                => (handlers'[c][i].cmd.action \notin {"launch", "close"} /\ ~launched')
          /\ ( /\ i \in 1..Len(handlers[c])
               /\ handlers[c][i].pc = "launch"
               /\ Enters(c, i, "exec")
               /\ handlers'[c][i].cmd = handlers[c][i].cmd )
                => (launched' /\ resp' = resp) ]_vars

\* the first line of a connection, a navigate, is at the executor after the
\* implicit launch
C13_Witness ==
    \E c \in Conns : \E i \in 1..Len(handlers[c]) :
        /\ handlers[c][i].pc = "exec"
        /\ handlers[c][i].cmd = [id |-> 1, action |-> "navigate"]
        /\ launched

\* a call of isDaemonRunning returns in this step, with this answer
Returns(p, answer) == probe[p] # answer /\ probe'[p] = answer

\* C14: isDaemonRunning answers true exactly when the PID file exists and the
\* probe of its PID succeeds, and then changes no marker file; with the PID file
\* absent it answers false and changes nothing; with a PID file whose process
\* is gone it answers false and, no deletion having failed, every marker file
\* of the session is removed by the time it returns.
C14_StaleSessionIsCleaned ==
    [][ \A p \in ProbeCalls :
          /\ Returns(p, "running") => ("pid" \in files /\ pidLive /\ files' = files)
          /\ Returns(p, "absent") => ("pid" \notin files /\ files' = files)
          /\ (Returns(p, "stale") /\ ioFaults' = 0) => files' = {} ]_vars

\* cleanupSocket finishes in this step: its finally block clears the guard
CleanupFinishes == cleaningUp /\ ~cleaningUp'

\* C15: a call of cleanupSocket with no concurrent call removes every marker
\* file that existed, except one whose deletion failed, and a call made after
\* it has finished changes nothing.
C15_CleanupRemovesEveryOtherMarker ==
    [][ CleanupFinishes =>
            files' \subseteq (IF ioFaults' > ioFaults THEN {cleanPc} ELSE {}) ]_vars

\* the continuation that calls process.exit in this step belongs to the signal
\* path or to the close command
ExitBySignalOrClose ==
    \/ SdBrowserClosed
    \/ CloseTimerFire
    \/ CleanStep /\ cleanOwner \in {"shutdown", "close"}

\* the continuation that calls process.exit in this step belongs to an
\* uncaughtException or unhandledRejection handler or to the startup catch
ExitByFaultOrStartupFailure ==
    \/ Fault
    \/ StreamStopScreencastDone /\ faulted'
    \/ CleanStep /\ cleanOwner \in {"fault", "startupFail"}

\* C16: the process exits with code 0 when the exit is made by the signal path
\* or by the close command, and with a nonzero code when it is made by an
\* uncaughtException or unhandledRejection handler or by a startup failure.
C16_ExitCodeByCause ==
    [][ (~exited /\ exited') =>
            /\ ExitBySignalOrClose => exitCode' = 0
            /\ ExitByFaultOrStartupFailure => exitCode' # 0
            /\ ExitBySignalOrClose \/ ExitByFaultOrStartupFailure ]_vars

\* a daemon ended by a signal alone has exited with code 0
C16_Witness ==
    /\ exited
    /\ exitCode = 0
    /\ sdPc = "cleanup"
    /\ ~faulted
    /\ closeTimer = "none"

(* ====================== properties: viewers ============================= *)
\* the handler of a message of viewer v enters its catch block in this step
MessageFailed(v) ==
    \/ \E kind \in {"garbage", "null"} : HandleMessage(v, kind)
    \/ InjectDone(v, "throw")

\* C17: a message that cannot be parsed, or whose input injection fails in the
\* engine, sends an error message to the viewer it came from and to no other;
\* no connection is closed by it, and the subscriber count and the capturing
\* flag keep their values.
C17_FailedMessageOnlyAnswersSender ==
    [][ \A v \in Guests :
          MessageFailed(v) =>
              /\ vstate[v] = "open" => lastMsg'[v] = "error"
              /\ \A w \in Viewers \ {v} : lastMsg'[w] = lastMsg[w]
              /\ vstate' = vstate
              /\ clientCount' = clientCount
              /\ isScreencasting' = isScreencasting
              /\ casting' = casting ]_vars

\* a viewer has been answered with an error for its message while another
\* viewer keeps the status it was sent and the capture goes on
C17_Witness ==
    \E v \in Guests : \E w \in Guests \ {v} :
        /\ msgPc[v] = "caught"
        /\ lastMsg[v] = "error"
        /\ vstate[v] = "open"
        /\ vstate[w] = "open"
        /\ lastMsg[w] = "status_true"
        /\ clientCount = 2
        /\ isScreencasting

\* the declared origins the stream server is meant to let in: none, the empty
\* one, and those of local files
LocalOrAbsent ==
    { NoOrigin, Declared(<<>>), Declared(FilePrefix), Declared(FilePrefix \o <<"/", "a">>) }

\* C18: an upgrade request becomes a viewer only when its declared origin is
\* absent, empty or that of a local file; a request with any other declared
\* origin is rejected and changes neither the subscriber count nor the
\* capture state.
C18_OnlyLocalOriginsBecomeViewers ==
    [][ \A v \in Guests : \A o \in Origins : \A upgradable \in BOOLEAN :
          Fetch(v, o, upgradable) =>
              /\ (vstate[v] = "new" /\ vstate'[v] = "open") => o \in LocalOrAbsent
              /\ o \notin LocalOrAbsent =>
                    /\ vstate'[v] = "forbidden"
                    /\ clientCount' = clientCount
                    /\ isScreencasting' = isScreencasting
                    /\ casting' = casting
                    /\ startOps' = startOps
                    /\ lastMsg' = lastMsg ]_vars

\* one request has been rejected for its origin while another viewer is
\* connected and the capture runs for it
C18_Witness ==
    \E v \in Guests : \E w \in Guests \ {v} :
        /\ vstate[v] = "forbidden"
        /\ lastMsg[v] = "none"
        /\ vstate[w] = "open"
        /\ clientCount = 1
        /\ isScreencasting
        /\ casting

(* ====================== properties: the port of a session =============== *)
\* C19: whatever the session name, every computation of its port gives the
\* same value, and that value is at least 49152 and less than 49152 + 16383,
\* also when the 32-bit hash wraps around or is the most negative value.
C19_PortStableAndInRange ==
    /\ \A port \in ports : port >= 49152 /\ port < 49152 + 16383
    /\ Cardinality(ports) <= 1
    /\ calls > 0 => ports # {}

\* the port of the name whose hash is the most negative 32-bit value has been
\* computed twice
C19_Witness ==
    /\ session = MostNegativeName
    /\ hash = <<32768, 0>>
    /\ calls = 2
    /\ ports = {49160}

(* ====================== properties: the order of shutdown =============== *)
\* the process exits in this step of a daemon that was serving, no close
\* command having been answered
ExitOfServingDaemon == ~exited /\ exited' /\ phase = "running" /\ closeTimer = "none"

ResponsesFor(c, k) == { i \in 1..Len(resp[c]) : resp[c][i].src = k }

\* C21: no line received on a connection is dispatched or answered a second
\* time: at most one response is written for it, for every chunking of the
\* input and every data event that arrives while an earlier command of the
\* connection is still executing.
C21_EachLineAnsweredOnce ==
    \A c \in Conns : \A k \in 1..Len(stream[c]) : Cardinality(ResponsesFor(c, k)) <= 1

(* ====================== properties: the marker files ==================== *)
\* the daemon being followed accepts connections, and neither a shutdown nor
\* the cleanup of an exception handler has begun
ServingUndisturbed == listening /\ ~shuttingDown /\ ~faulted /\ ~exited

\* C22: while a daemon accepts connections and has not begun to shut down, the
\* PID file of its session exists as it wrote it, and the stream-port file
\* exists (as it wrote it) exactly when it runs a stream server; this for the
\* daemon being followed and for the daemon that was live before it.
C22_MarkersOfServingDaemon ==
    /\ ServingUndisturbed =>
          /\ "pid" \in files \ peerFiles
          /\ "stream" \in files \ peerFiles <=> streamServer
    /\ peer # "none" =>
          /\ "pid" \in peerFiles
          /\ "stream" \in peerFiles <=> peer = "streaming"

(* ====================== properties: the in-flight guard ================= *)
\* the calls of a client that are executing the deletion steps
Executing == { p \in ProbeCalls : probe[p] \in {"call", "cleanup"} }

\* C23: at most one call of cleanupSocket executes the deletion steps at any
\* time, and it is the one that holds the guard; a call that acts while
\* another is in flight deletes nothing and leaves that one as it is; the
\* guard is cleared when the executing call ends, after its last deletion or
\* on the first deletion that fails; a call made with the guard clear takes
\* it.
C23_OneCleanupAtATime ==
    /\ [](Cardinality(Executing) <= 1)
    /\ [](cleaningUp <=> Executing # {})
    /\ [](cleaningUp => Executing = {cleanOwner})
    /\ [][ \A p \in ProbeCalls :
             /\ (cleaningUp /\ cleanOwner # p /\ probe'[p] # probe[p]) =>
                   /\ files' = files
                   /\ cleaningUp'
                   /\ cleanOwner' = cleanOwner
                   /\ cleanPc' = cleanPc
                   /\ probe'[p] \notin {"call", "cleanup"}
             /\ (~cleaningUp /\ probe[p] = "idle" /\ probe'[p] \notin {"idle", "text", "absent"}) =>
                   (cleaningUp' /\ cleanOwner' = p /\ probe'[p] = "call") ]_vars
    /\ [][ files' # files => (cleaningUp /\ files' = files \ {cleanPc}) ]_vars
    /\ [][ (cleaningUp /\ (ioFaults' > ioFaults \/ (cleanPc = "sock" /\ cleanPc' # cleanPc))) =>
              (~cleaningUp' /\ Executing' = {}) ]_vars

\* a call has returned at once while another, which holds the guard, has
\* deleted the PID file and goes on
C23_Witness ==
    \E p \in ProbeCalls : \E q \in ProbeCalls \ {p} :
        /\ probe[p] = "cleaned"
        /\ probe[q] = "call"
        /\ cleaningUp
        /\ cleanOwner = q
        /\ cleanPc = "stream"
        /\ files = {"stream", "sock"}

(* ====================== properties: capture and viewers ================= *)
\* the viewers that are connected
Connected == { v \in Viewers : vstate[v] = "open" }

\* the stream server runs, the engine is launched, and no start or stop of
\* the capture is in flight
CaptureSettled ==
    /\ srv
    /\ stopPc = "none"
    /\ ~exited
    /\ launched
    /\ startOps = {}
    /\ stopOps = 0

\* C24: whenever the stream server runs, the engine is launched and no start
\* or stop of the capture is in flight, the capture runs if and only if at
\* least one viewer is connected.
C24_CaptureIffViewers == CaptureSettled => (casting <=> Connected # {})

\* C25: the subscriber count of the stream server is never negative, and it
\* equals the number of connected viewers as long as stop() has not begun to
\* close them; this also after the close callbacks of the connections that
\* stop() closes, which run once it has reset the count to zero.
C25_CountMatchesViewers ==
    /\ clientCount >= 0
    /\ (~shuttingDown /\ stopPc = "none") => clientCount = Cardinality(Connected)

(* ====================== properties: commands during shutdown ============ *)
\* the data handler of connection c takes up a further line in this step: an
\* invocation calls browser.launch() or executeCommand() for a command it was
\* not yet working on
TakesUpCommand(c) ==
    \/ Len(handlers'[c]) > Len(handlers[c])
    \/ /\ Len(handlers'[c]) = Len(handlers[c])
       /\ \E i \in 1..Len(handlers[c]) : handlers'[c][i].cmd # handlers[c][i].cmd

\* C26: once shutdown has begun (shutdown() has started, or a close command
\* has been answered and its timer is pending), no connection has a further
\* command dispatched to the engine or an implicit launch started for it.
C26_NoDispatchDuringShutdown ==
    [][ (shuttingDown /\ ~exited) => \A c \in Conns : ~TakesUpCommand(c) ]_vars

(* ====================== properties: every resolved cleanup ============== *)
\* the promise of a cleanupSocket call made by p resolves in this step: by the
\* early return of a coalesced call or after the finally block of the call
\* that did the deleting
Resolves(p) ==
    /\ probe[p] \notin {"cleaned", "stale"}
    /\ probe'[p] \in {"cleaned", "stale"}

\* C27: whenever a call of cleanupSocket resolves, a call coalesced with a
\* cleanup in flight included, the marker files of the session are absent
\* (no deletion having failed).
C27_MarkersAbsentWhenCallResolves ==
    [][ \A p \in ProbeCalls : (Resolves(p) /\ ioFaults' = 0) => files' = {} ]_vars

(* ====================== properties: starting beside a live daemon ======= *)
\* a step of the cleanupSocket() call that startDaemon awaits before it sets
\* anything up
InitialCleanupStep == cleaningUp /\ cleanOwner = "startup"

\* C28: starting a daemon removes only stale artifacts: while another daemon
\* of the session is live, startDaemon deletes none of that daemon's PID,
\* stream-port and socket/port files.
C28_StartKeepsLiveDaemonsMarkers ==
    [][ (peer # "none" /\ InitialCleanupStep) => peerFiles \subseteq files' ]_vars

====
